---- MODULE Spec2Model ----
(***************************************************************************)
(* A model of virtwork's orchestration and cleanup engine: the cleanup     *)
(* pass (internal/cleanup), the run orchestrator (cmd/virtwork runE), the  *)
(* resource gateway (internal/resources, internal/vm) and the readiness    *)
(* poller (internal/wait).  The cluster is a set of labelled objects; the  *)
(* API server's answers to Create/Delete/List/Get are the model's inputs.  *)
(***************************************************************************)
EXTENDS Integers, Sequences, FiniteSets, TLC

VARIABLES
    cluster,          \* the VM, Service and Secret objects of the namespace
    namespaceExists,  \* whether the Namespace object exists
    \* ---- cleanup.CleanupAll
    cleanupPc,        \* position in CleanupAll
    cleanupKind,      \* index into KindOrder of the kind being processed
    items,            \* the listed items of that kind not yet visited
    result,           \* *CleanupResult
    cleanupErr,       \* the error CleanupAll returns
    deleteNamespace,  \* argument deleteNamespace
    targetRunID,      \* argument runID ("" = no filter)
    deleteLog,        \* every c.Delete call made so far, in order, with its answer
    listed,           \* kind -> the items c.List returned for it
    initialCluster,   \* the cluster when CleanupAll was called
    listLog,          \* every c.List call made so far, in order, with its answer
    \* ---- the resource gateway (resources.*, vm.CreateVM, vm.DeleteVM)
    call,             \* the gateway call in progress, or the last one returned
    prevCall,         \* the call that returned before it, with the cluster it left
    ctxCancelled,     \* whether the caller's context has been cancelled
    callCount,        \* gateway calls started so far
    \* ---- runE
    runPc, workloadNames, vmCountFlag, dryRun, waitForReady, plans, runIdx,
    nsCalls, svcCalls, secCalls, tasks, gctxCancelled, groupErr, faults, runErr,
    waitResults, servicesCreated, secretsCreated,
    \* ---- wait.WaitForAllVMsReady
    now,              \* the clock
    wNames,           \* argument names
    wTimeout,         \* argument timeout
    wInterval,        \* argument interval
    wTasks,           \* one goroutine per name
    phase,            \* name -> the phase of its VirtualMachineInstance ("absent" = none yet)
    phase0,           \* the phases when the wait was called
    inTime,           \* name -> the instance was Running at some time before the deadline
    wCtxCancelled,    \* the caller's ctx has been cancelled
    wResults,         \* the results map
    wReturned,        \* wg.Wait has returned
    \* ---- auditor.StartExecution
    invocations       \* the invocations of the tool so far, in order

cleanupVars == <<cleanupPc, cleanupKind, items, result, cleanupErr,
                 deleteNamespace, targetRunID, deleteLog, listed, initialCluster, listLog>>
clusterVars == <<cluster, namespaceExists>>
gatewayVars == <<call, prevCall, ctxCancelled, callCount>>
runVars == <<runPc, workloadNames, vmCountFlag, dryRun, waitForReady, plans, runIdx,
             nsCalls, svcCalls, secCalls, tasks, gctxCancelled, groupErr, faults, runErr,
             waitResults, servicesCreated, secretsCreated>>
waitVars == <<now, wNames, wTimeout, wInterval, wTasks, phase, phase0, inTime,
              wCtxCancelled, wResults, wReturned>>
mintVars == <<invocations>>
vars == <<clusterVars, cleanupVars, gatewayVars, runVars, waitVars, mintVars>>

----------------------------------------------------------------------------
(* Labels (internal/constants) *)

LabelManagedBy == "app.kubernetes.io/managed-by"
LabelRunID == "virtwork/run-id"
ManagedByValue == "virtwork"

Kinds == {"VM", "Service", "Secret"}

\* The order in which CleanupAll walks the kinds.
ServicesFirst == <<"Service", "VM", "Secret">>

KindOrder == <<"VM", "Service", "Secret">>

RunA == "run-a"
RunB == "run-b"

\* client.MatchingLabels: every pair of the selector is a pair of the labels.
MatchingAnyLabel(labels, selector) ==
    \E k \in DOMAIN selector : k \in DOMAIN labels /\ labels[k] = selector[k]

MatchingLabels(labels, selector) ==
    \A k \in DOMAIN selector : k \in DOMAIN labels /\ labels[k] = selector[k]

\* No gateway call has been made.
NoCall == [op |-> "none", pc |-> "idle"]

GatewayIdle ==
    /\ call = NoCall
    /\ prevCall = NoCall
    /\ ctxCancelled = FALSE
    /\ callCount = 0

\* runE has not been started.
RunIdle ==
    /\ runPc = "idle"
    /\ workloadNames = <<>>
    /\ vmCountFlag = 0
    /\ dryRun = FALSE
    /\ waitForReady = FALSE
    /\ plans = <<>>
    /\ runIdx = 1
    /\ nsCalls = <<>>
    /\ svcCalls = <<>>
    /\ secCalls = <<>>
    /\ tasks = <<>>
    /\ gctxCancelled = FALSE
    /\ groupErr = [vm |-> "nil", cause |-> "nil"]
    /\ faults = 0
    /\ runErr = [op |-> "nil", cause |-> "nil", detail |-> <<>>]
    /\ waitResults = <<>>
    /\ servicesCreated = 0
    /\ secretsCreated = 0

\* WaitForAllVMsReady has not been called.
WaitIdle ==
    /\ now = 0
    /\ wNames = <<>>
    /\ wTimeout = 0
    /\ wInterval = 0
    /\ wTasks = <<>>
    /\ phase = <<>>
    /\ phase0 = <<>>
    /\ inTime = <<>>
    /\ wCtxCancelled = FALSE
    /\ wResults = <<>>
    /\ wReturned = FALSE

\* The tool has not been invoked.
MintIdle == invocations = <<>>

----------------------------------------------------------------------------
(* The objects a namespace may hold when cleanup starts *)

MaxObjects == 3

ManagedRun(r) == (LabelManagedBy :> ManagedByValue) @@ (LabelRunID :> r)

\* name -> labels: two objects of run A, one of run B, one managed object
\* without a run-id, one object of another tool that carries run A's id.
LabelsOfName ==
    [a1 |-> ManagedRun(RunA),
     a2 |-> ManagedRun(RunA),
     b1 |-> ManagedRun(RunB),
     m0 |-> (LabelManagedBy :> ManagedByValue),
     u1 |-> (LabelManagedBy :> "other-tool") @@ (LabelRunID :> RunA)]

\* The order in which a List answers (by name).
NameOrder == <<"a1", "a2", "b1", "m0", "u1">>

Object(kind, name) == [kind |-> kind, name |-> name, labels |-> LabelsOfName[name]]

Universe == {Object(k, NameOrder[i]) : k \in Kinds, i \in 1..Len(NameOrder)}

IsManaged(o) == MatchingLabels(o.labels, (LabelManagedBy :> ManagedByValue))

HasRunID(o, r) == LabelRunID \in DOMAIN o.labels /\ o.labels[LabelRunID] = r

----------------------------------------------------------------------------
(* cleanup.CleanupAll *)

\* The managed-by selector every cleanup uses.
NoManagedLabels == <<>>

ManagedLabels == (LabelManagedBy :> ManagedByValue)

\* The selector of a cleanup: managed-by, and the run-id when a filter is given.
Selector(runID) ==
    IF runID = "" THEN ManagedLabels ELSE ManagedLabels @@ (LabelRunID :> runID)

\* c.List(InNamespace, MatchingLabels): the matching objects of a kind, by name.
ListItems(cl, kind, selector) ==
    SelectSeq([i \in 1..Len(NameOrder) |-> Object(kind, NameOrder[i])],
              LAMBDA o : o \in cl /\ MatchingLabels(o.labels, selector))

EmptyResult ==
    [VMsDeleted |-> 0, ServicesDeleted |-> 0, SecretsDeleted |-> 0,
     NamespaceDeleted |-> FALSE, Errors |-> <<>>, RunIDs |-> {}]

CounterOf(kind) ==
    CASE kind = "VM" -> "VMsDeleted"
      [] kind = "Service" -> "ServicesDeleted"
      [] kind = "Secret" -> "SecretsDeleted"

\* The run-id of a listed item joins the result's set before its delete.
RecordNothing(res, o) == res

RecordRunID(res, o) ==
    IF LabelRunID \in DOMAIN o.labels
    THEN [res EXCEPT !.RunIDs = @ \cup {o.labels[LabelRunID]}]
    ELSE res

\* What follows the loop over kind number k.
NextStage(k) ==
    IF k < Len(KindOrder) THEN "list"
    ELSE IF deleteNamespace THEN "namespace" ELSE "done"

NextKind(k) == IF k < Len(KindOrder) THEN k + 1 ELSE k

\* The answers a Delete of a listed item can get: deleted, already gone (removed
\* by someone else since the List), or any other error.
DeleteAnswers == {"nil", "NotFound", "error"}

\* The effect of one c.Delete of the loop, given the API's answer: the result,
\* and whether CleanupAll returns at once with an error.
DeleteOutcomeAborting(res, kind, o, answer) ==
    IF answer = "nil"
    THEN [result |-> [res EXCEPT ![CounterOf(kind)] = @ + 1], stop |-> FALSE]
    ELSE IF answer = "NotFound" THEN [result |-> res, stop |-> FALSE]
    ELSE [result |-> res, stop |-> TRUE]

DeleteOutcome(res, kind, o, answer) ==
    IF answer = "nil"
    THEN [result |-> [res EXCEPT ![CounterOf(kind)] = @ + 1], stop |-> FALSE]
    ELSE IF answer = "NotFound" THEN [result |-> res, stop |-> FALSE]
    ELSE [result |-> [res EXCEPT !.Errors =
                         Append(@, [op |-> "deleting", kind |-> kind, name |-> o.name])],
          stop |-> FALSE]

\* What CleanupAll returns as its error when c.List of a kind fails.
ListFailureSwallowed(kind) == [op |-> "nil", kind |-> "nil"]

ListFailure(kind) == [op |-> "listing", kind |-> kind]

\* c.List of the current kind: a failure ends CleanupAll with a top-level error.
CleanupList ==
    /\ cleanupPc = "list"
    /\ LET kind == KindOrder[cleanupKind] IN
       \/ /\ cleanupErr' = ListFailure(kind)
          /\ cleanupPc' = "done"
          /\ listLog' = Append(listLog, [kind |-> kind, answer |-> "error"])
          /\ UNCHANGED <<cleanupKind, items, listed>>
       \/ LET l == ListItems(cluster, kind, Selector(targetRunID)) IN
          /\ listLog' = Append(listLog, [kind |-> kind, answer |-> "nil"])
          /\ listed' = [listed EXCEPT ![kind] = l]
          /\ items' = l
          /\ IF l = <<>>
             THEN /\ cleanupPc' = NextStage(cleanupKind)
                  /\ cleanupKind' = NextKind(cleanupKind)
             ELSE /\ cleanupPc' = "delete"
                  /\ UNCHANGED cleanupKind
          /\ UNCHANGED cleanupErr
    /\ UNCHANGED <<cluster, namespaceExists, result, deleteNamespace, targetRunID,
                   deleteLog, initialCluster>>
    /\ UNCHANGED <<gatewayVars, runVars, waitVars, mintVars>>

\* One iteration of the loop over the listed items.
CleanupDelete ==
    /\ cleanupPc = "delete"
    /\ items # <<>>
    /\ LET kind == KindOrder[cleanupKind]
           o == Head(items) IN
       \E answer \in DeleteAnswers :
          LET out == DeleteOutcome(RecordRunID(result, o), kind, o, answer) IN
          /\ cluster' = IF answer = "error" THEN cluster ELSE cluster \ {o}
          /\ result' = out.result
          /\ deleteLog' = Append(deleteLog, [kind |-> kind, name |-> o.name, answer |-> answer])
          /\ items' = Tail(items)
          /\ IF out.stop
             THEN /\ cleanupPc' = "done"
                  /\ cleanupErr' = [op |-> "deleting", kind |-> kind]
                  /\ UNCHANGED cleanupKind
             ELSE /\ UNCHANGED cleanupErr
                  /\ IF Tail(items) = <<>>
                     THEN /\ cleanupPc' = NextStage(cleanupKind)
                          /\ cleanupKind' = NextKind(cleanupKind)
                     ELSE UNCHANGED <<cleanupPc, cleanupKind>>
    /\ UNCHANGED <<namespaceExists, deleteNamespace, targetRunID, listed, initialCluster,
                   listLog>>
    /\ UNCHANGED <<gatewayVars, runVars, waitVars, mintVars>>

\* The namespace delete, the last step when deleteNamespace is set.  Deleting a
\* namespace removes every object in it.
CleanupNamespace ==
    /\ cleanupPc = "namespace"
    /\ \E answer \in (IF namespaceExists THEN {"nil", "error"} ELSE {"NotFound"}) :
          /\ deleteLog' = Append(deleteLog, [kind |-> "Namespace", name |-> "ns", answer |-> answer])
          /\ IF answer = "nil"
             THEN /\ result' = [result EXCEPT !.NamespaceDeleted = TRUE]
                  /\ namespaceExists' = FALSE
                  /\ cluster' = {}
             ELSE /\ result' = IF answer = "NotFound" THEN result
                                ELSE [result EXCEPT !.Errors =
                                         Append(@, [op |-> "deleting", kind |-> "Namespace", name |-> "ns"])]
                  /\ UNCHANGED <<namespaceExists, cluster>>
    /\ cleanupPc' = "done"
    /\ UNCHANGED <<cleanupKind, items, cleanupErr, deleteNamespace, targetRunID,
                   listed, initialCluster, listLog>>
    /\ UNCHANGED <<gatewayVars, runVars, waitVars, mintVars>>

NoError == [op |-> "nil", kind |-> "nil"]

InitCleanup ==
    /\ namespaceExists \in BOOLEAN
    /\ cluster \in {S \in SUBSET Universe : Cardinality(S) <= MaxObjects}
    /\ namespaceExists = FALSE => cluster = {}
    /\ initialCluster = cluster
    /\ deleteNamespace \in BOOLEAN
    /\ targetRunID \in {"", RunA, RunB}
    /\ cleanupPc = "list"
    /\ cleanupKind = 1
    /\ items = <<>>
    /\ listed = [k \in Kinds |-> <<>>]
    /\ result = EmptyResult
    /\ cleanupErr = NoError
    /\ deleteLog = <<>>
    /\ listLog = <<>>
    /\ GatewayIdle
    /\ RunIdle
    /\ WaitIdle
    /\ MintIdle

NextCleanup == CleanupList \/ CleanupDelete \/ CleanupNamespace

SpecCleanup == InitCleanup /\ [][NextCleanup]_vars

----------------------------------------------------------------------------
(* Properties of the cleanup pass *)

\* The Delete calls made for VM, Service and Secret objects.
ItemCalls == {i \in 1..Len(deleteLog) : deleteLog[i].kind \in Kinds}

CallsOf(o) == {i \in ItemCalls : deleteLog[i].kind = o.kind /\ deleteLog[i].name = o.name}

CallsWith(kind, answer) ==
    {i \in ItemCalls : deleteLog[i].kind = kind /\ deleteLog[i].answer = answer}

ErrorsOf(kind) ==
    {i \in 1..Len(result.Errors) :
        result.Errors[i].op = "deleting" /\ result.Errors[i].kind = kind}

CalledObject(i) == Object(deleteLog[i].kind, deleteLog[i].name)

Selected(o) == IsManaged(o) /\ (targetRunID = "" \/ HasRunID(o, targetRunID))

\* A cleanup that ran to its end with every List answered.
CleanupReturnedNil == cleanupPc = "done" /\ cleanupErr = NoError

\* The unfiltered half of C1: every managed object of either run got its Delete
\* call, and is gone unless that call failed.
UnfilteredDeletesBoth ==
    (CleanupReturnedNil /\ targetRunID = "") =>
        \A o \in initialCluster :
            IsManaged(o) =>
                /\ CallsOf(o) # {}
                /\ (\E i \in CallsOf(o) : deleteLog[i].answer # "error") => o \notin cluster

\* An object labelled with a run-id other than the cleanup's filter.
OfOtherRun(o) == LabelRunID \in DOMAIN o.labels /\ o.labels[LabelRunID] # targetRunID

C2_UnmanagedUntouched ==
    /\ \A i \in ItemCalls : IsManaged(CalledObject(i))
    /\ ~result.NamespaceDeleted =>
          \A o \in initialCluster : ~IsManaged(o) => o \in cluster

C2_Witness ==
    /\ cleanupPc = "done"
    /\ targetRunID = ""
    /\ deleteNamespace /\ ~result.NamespaceDeleted
    /\ Object("Secret", "u1") \in initialCluster \cap cluster
    /\ Object("Secret", "a1") \in initialCluster \ cluster
    /\ result.SecretsDeleted = 1

\* Every listed item of every kind got exactly one Delete call, one error was
\* appended per failed call, and only a List failure is a top-level error.
EveryItemVisited ==
    /\ cleanupPc = "done" => cleanupErr.op \in {"nil", "listing"}
    /\ CleanupReturnedNil =>
          \A kind \in Kinds :
             /\ \A j \in 1..Len(listed[kind]) : Cardinality(CallsOf(listed[kind][j])) = 1
             /\ Cardinality(ErrorsOf(kind)) = Cardinality(CallsWith(kind, "error"))

----------------------------------------------------------------------------
(* The resource gateway: resources.EnsureNamespace, resources.CreateService, *)
(* resources.CreateCloudInitSecret, vm.CreateVM, vm.DeleteVM                 *)

MaxCalls == 2

MaxRetries == 5
BaseRetryBackoff == 1

RECURSIVE Pow2(_)
Pow2(n) == IF n = 0 THEN 1 ELSE 2 * Pow2(n - 1)

\* The sleep after failed attempt number `attempt` (from 0).
ConstantBackoff(attempt) == BaseRetryBackoff

Backoff(attempt) == BaseRetryBackoff * Pow2(attempt)

\* apierrors the model's API server can answer with.
TransientErrors == {"TooManyRequests", "ServerTimeout", "ServiceUnavailable", "InternalError"}
FatalErrors == {"Unauthorized", "Forbidden", "NotFound", "Invalid"}

RetryEverything(err) == err # "nil"

IsTransient(err) == err \in TransientErrors

CreateOps == {"EnsureNamespace", "CreateService", "CreateCloudInitSecret", "CreateVM"}
DeleteOps == {"DeleteVM", "DeleteService", "DeleteSecret"}
\* The calls wrapped in retryOnTransient.
RetriedOps == {"CreateVM"} \cup DeleteOps

KindOfOp(op) ==
    CASE op = "EnsureNamespace" -> "Namespace"
      [] op \in {"CreateService", "DeleteService"} -> "Service"
      [] op \in {"CreateCloudInitSecret", "DeleteSecret"} -> "Secret"
      [] op \in {"CreateVM", "DeleteVM"} -> "VM"

Key(o) == <<o.kind, o.name>>

Exists(cl, o) == \E x \in cl : Key(x) = Key(o)

\* The API server's answer that follows from the cluster's state: Create answers
\* AlreadyExists for a key that exists (whatever the spec sent), Delete answers
\* NotFound for one that does not.
StateAnswer(op, o, cl, nsExists) ==
    IF op = "EnsureNamespace" THEN (IF nsExists THEN "AlreadyExists" ELSE "nil")
    ELSE IF op \in CreateOps
         THEN (IF ~nsExists THEN "NotFound"
               ELSE IF Exists(cl, o) THEN "AlreadyExists" ELSE "nil")
         ELSE (IF Exists(cl, o) THEN "nil" ELSE "NotFound")

\* Every answer a call can get: the one the state gives, or a fault.
Answers(op, o, cl, nsExists) ==
    {StateAnswer(op, o, cl, nsExists)} \cup TransientErrors \cup (FatalErrors \ {"NotFound"})

\* The cluster after an answer: only a nil answer changes it.
ClusterAfter(op, o, cl, answer) ==
    IF answer # "nil" \/ op = "EnsureNamespace" THEN cl
    ELSE IF op \in CreateOps THEN cl \cup {o}
    ELSE {x \in cl : Key(x) # Key(o)}

NamespaceAfter(op, nsExists, answer) ==
    IF op = "EnsureNamespace" /\ answer = "nil" THEN TRUE ELSE nsExists

\* resources.go: `if apierrors.IsAlreadyExists(err) { return nil }; return err`.
CreateErrStrict(answer) == answer

CreateErr(answer) == IF answer = "AlreadyExists" THEN "nil" ELSE answer

\* The error the function wrapped in retryOnTransient returns for an API answer:
\* AlreadyExists on the VM create and NotFound on a delete are success.
NoIdempotence(op, answer) == answer

WrappedErr(op, answer) ==
    IF op \in CreateOps /\ answer = "AlreadyExists" THEN "nil"
    ELSE IF op \in DeleteOps /\ answer = "NotFound" THEN "nil"
    ELSE answer

NewCall(op, o) ==
    [op |-> op, obj |-> o, pc |-> "attempt",
     attempt |-> 0,          \* the loop variable of retryOnTransient
     attempts |-> 0,         \* API calls made
     sleeps |-> <<>>,        \* the backoff sleeps taken, in order
     first |-> "none",       \* the first API answer
     last |-> "none",        \* the latest API answer (lastErr while retrying)
     onlyTransient |-> TRUE, \* every answer so far was a transient error
     ret |-> "nil"]

Returned(c, err) == [c EXCEPT !.pc = "returned", !.ret = err]

Observed(c, answer) ==
    [c EXCEPT !.attempts = @ + 1,
              !.first = IF c.attempts = 0 THEN answer ELSE @,
              !.last = answer,
              !.onlyTransient = @ /\ answer \in TransientErrors]

\* resources.EnsureNamespace / CreateService / CreateCloudInitSecret: one Create.
CreateOnce(c, answer) ==
    Returned(Observed(c, answer), CreateErr(answer))

\* One pass of retryOnTransient's loop body after the context check: the wrapped
\* function has returned for `answer`.
RetryAttempt(c, answer) ==
    LET err == WrappedErr(c.op, answer)
        seen == Observed(c, answer) IN
    IF err = "nil" THEN Returned(seen, "nil")
    ELSE IF ~IsTransient(err) THEN Returned(seen, err)
    ELSE IF c.attempt < MaxRetries
         THEN [seen EXCEPT !.pc = "sleep",
                           !.sleeps = Append(@, Backoff(c.attempt))]
         ELSE Returned(seen, "RetriesExhausted")

\* The backoff timer fired: the next pass of the loop.
AfterSleep(c) == [c EXCEPT !.pc = "attempt", !.attempt = @ + 1]

GatewayObjects(op) ==
    IF op = "EnsureNamespace"
    THEN {[kind |-> "Namespace", name |-> "ns", labels |-> ManagedLabels]}
    ELSE {[kind |-> KindOfOp(op), name |-> "x", labels |-> ManagedRun(r)] : r \in {RunA, RunB}}

\* A caller starts a gateway call (after the previous one has returned).
GatewayCall ==
    /\ call.pc \in {"idle", "returned"}
    /\ callCount < MaxCalls
    /\ \E op \in CreateOps \cup DeleteOps :
       \E o \in GatewayObjects(op) :
          call' = NewCall(op, o)
    /\ prevCall' = IF call.pc = "returned"
                   THEN [op |-> call.op, obj |-> call.obj, ret |-> call.ret,
                         pc |-> "returned", cluster |-> cluster,
                         namespaceExists |-> namespaceExists]
                   ELSE NoCall
    /\ callCount' = callCount + 1
    /\ ctxCancelled' = FALSE
    /\ UNCHANGED <<clusterVars, cleanupVars, runVars, waitVars, mintVars>>

\* A call that is not retried: one Create.
GatewayCreateOnce ==
    /\ call.pc = "attempt"
    /\ call.op \notin RetriedOps
    /\ \E answer \in Answers(call.op, call.obj, cluster, namespaceExists) :
          /\ call' = CreateOnce(call, answer)
          /\ cluster' = ClusterAfter(call.op, call.obj, cluster, answer)
          /\ namespaceExists' = NamespaceAfter(call.op, namespaceExists, answer)
    /\ UNCHANGED <<prevCall, ctxCancelled, callCount, cleanupVars, runVars, waitVars, mintVars>>

\* The top of retryOnTransient's loop: the context check, then the attempt.
GatewayRetryAttempt ==
    /\ call.pc = "attempt"
    /\ call.op \in RetriedOps
    /\ IF ctxCancelled
       THEN /\ call' = Returned(call, "Cancelled")
            /\ UNCHANGED clusterVars
       ELSE \E answer \in Answers(call.op, call.obj, cluster, namespaceExists) :
               /\ call' = RetryAttempt(call, answer)
               /\ cluster' = ClusterAfter(call.op, call.obj, cluster, answer)
               /\ namespaceExists' = NamespaceAfter(call.op, namespaceExists, answer)
    /\ UNCHANGED <<prevCall, ctxCancelled, callCount, cleanupVars, runVars, waitVars, mintVars>>

\* The backoff sleep: select on ctx.Done() and the timer.
GatewayBackoff ==
    /\ call.pc = "sleep"
    /\ \/ call' = AfterSleep(call)
       \/ ctxCancelled /\ call' = Returned(call, "Cancelled")
    /\ UNCHANGED <<prevCall, ctxCancelled, callCount, clusterVars, cleanupVars, runVars, waitVars, mintVars>>

\* The caller cancels the context of the call in progress.
GatewayCancel ==
    /\ call.pc \in {"attempt", "sleep"}
    /\ call.op \in RetriedOps
    /\ ~ctxCancelled
    /\ ctxCancelled' = TRUE
    /\ UNCHANGED <<call, prevCall, callCount, clusterVars, cleanupVars, runVars, waitVars, mintVars>>

CleanupIdle ==
    /\ cleanupPc = "idle"
    /\ cleanupKind = 1
    /\ items = <<>>
    /\ listed = [k \in Kinds |-> <<>>]
    /\ result = EmptyResult
    /\ cleanupErr = NoError
    /\ deleteLog = <<>>
    /\ deleteNamespace = FALSE
    /\ targetRunID = ""
    /\ initialCluster = {}
    /\ listLog = <<>>

InitGateway ==
    /\ cluster = {}
    /\ namespaceExists \in BOOLEAN
    /\ GatewayIdle
    /\ CleanupIdle
    /\ RunIdle
    /\ WaitIdle
    /\ MintIdle

NextGateway ==
    GatewayCall \/ GatewayCreateOnce \/ GatewayRetryAttempt \/ GatewayBackoff \/ GatewayCancel

SpecGateway == InitGateway /\ [][NextGateway]_vars

----------------------------------------------------------------------------
(* Properties of the resource gateway *)

Faults == TransientErrors \cup (FatalErrors \ {"NotFound"})

\* The call that has just returned repeats the create that returned nil before it.
SameCreateTwice ==
    /\ call.pc = "returned"
    /\ prevCall.pc = "returned"
    /\ call.op \in CreateOps
    /\ prevCall.op = call.op
    /\ prevCall.obj = call.obj
    /\ prevCall.ret = "nil"

\* The call's final answer is the API server's answer for the cluster's state,
\* not a fault of the server or the transport.
AnsweredFromState(c) == c.attempts > 0 /\ c.last \notin Faults

\* C6: a VM, Service, Secret or Namespace create repeated with the identical
\* spec returns no error the second time, and leaves the cluster as the first
\* call left it (the API server answering the second call from its state).
C6_IdempotentCreate ==
    (SameCreateTwice /\ AnsweredFromState(call))
        => /\ call.ret = "nil"
           /\ cluster = prevCall.cluster
           /\ namespaceExists = prevCall.namespaceExists
           /\ Exists(cluster, call.obj) \/ call.op = "EnsureNamespace"

C6_Witness ==
    /\ SameCreateTwice
    /\ call.op = "CreateCloudInitSecret"
    /\ call.last = "AlreadyExists"
    /\ call.obj \in cluster

\* C7: a delete of a VM, Service or Secret that the API server reports as not
\* found returns nil; when that is the first answer, the call made one attempt
\* and slept for no retry.
C7_IdempotentDelete ==
    (call.pc = "returned" /\ call.op \in DeleteOps /\ call.last = "NotFound")
        => /\ call.ret = "nil"
           /\ Len(call.sleeps) = call.attempts - 1
           /\ call.first = "NotFound" => (call.attempts = 1 /\ call.sleeps = <<>>)

C7_Witness ==
    /\ call.pc = "returned"
    /\ call.op = "DeleteVM"
    /\ call.first = "NotFound"
    /\ ~Exists(cluster, call.obj)
    /\ call.ret = "nil"

\* The call ran to its end with a transient error for every attempt.
AlwaysTransient(c) ==
    /\ c.pc = "returned"
    /\ c.attempts > 0
    /\ c.onlyTransient
    /\ c.ret # "Cancelled"

DoublingSchedule == <<1, 2, 4, 8, 16>>

\* C8 as stated: any create call that gets a transient error for every attempt
\* is attempted maxRetries+1 times and returns retries-exhausted.
C8_ExhaustionAsStated ==
    (AlwaysTransient(call) /\ call.op \in CreateOps)
        => /\ call.attempts = MaxRetries + 1
           /\ call.sleeps = DoublingSchedule
           /\ call.ret = "RetriesExhausted"

\* C8: a VM create that gets a transient error for every attempt is attempted
\* exactly maxRetries+1 = 6 times, sleeps 1, 2, 4, 8, 16 between the attempts,
\* and returns the retries-exhausted error.
C8_RetryExhaustion ==
    (AlwaysTransient(call) /\ call.op = "CreateVM")
        => /\ call.attempts = MaxRetries + 1
           /\ call.attempts = 6
           /\ call.sleeps = DoublingSchedule
           /\ call.ret = "RetriesExhausted"
           /\ call.last \in TransientErrors

C8_Witness ==
    /\ AlwaysTransient(call)
    /\ call.op = "CreateVM"
    /\ call.attempts = 6
    /\ call.ret = "RetriesExhausted"

\* C9: a VM create whose first answer is a fatal error has returned after that
\* one attempt, with that error, without a backoff sleep.
C9_FatalNotRetried ==
    (call.op = "CreateVM" /\ call.attempts > 0 /\ call.first \in FatalErrors)
        => /\ call.pc = "returned"
           /\ call.attempts = 1
           /\ call.ret = call.first
           /\ call.sleeps = <<>>

C9_Witness ==
    /\ call.op = "CreateVM"
    /\ call.pc = "returned"
    /\ call.first = "Forbidden"
    /\ call.ret = "Forbidden"

----------------------------------------------------------------------------
(* The run orchestrator: runE *)

MaxWorkloads == 2
MaxPlans == 4
MaxFaults == 1

LabelAppName == "app.kubernetes.io/name"
LabelComponent == "app.kubernetes.io/component"
LabelRole == "virtwork/role"

\* workloads.DefaultRegistry
Registry == {"cpu", "database", "disk", "memory", "network"}

\* The letters of the registered names, as positions in the alphabet.
Letters(name) ==
    CASE name = "cpu" -> <<3, 16, 21>>
      [] name = "database" -> <<4, 1, 20, 1, 2, 1, 19, 5>>
      [] name = "disk" -> <<4, 9, 19, 11>>
      [] name = "memory" -> <<13, 5, 13, 15, 18, 25>>
      [] name = "network" -> <<14, 5, 20, 23, 15, 18, 11>>

\* Go's string order: byte-wise, a proper prefix first.
RECURSIVE LexLess(_, _)
LexLess(a, b) ==
    IF b = <<>> THEN FALSE
    ELSE IF a = <<>> THEN TRUE
    ELSE IF Head(a) # Head(b) THEN Head(a) < Head(b)
    ELSE LexLess(Tail(a), Tail(b))

RECURSIVE InsertSorted(_, _)
InsertSorted(sorted, name) ==
    IF sorted = <<>> THEN <<name>>
    ELSE IF LexLess(Letters(name), Letters(Head(sorted))) THEN <<name>> \o sorted
    ELSE <<Head(sorted)>> \o InsertSorted(Tail(sorted), name)

\* sort.Strings
RECURSIVE SortStrings(_)
SortStrings(names) ==
    IF names = <<>> THEN <<>>
    ELSE InsertSorted(SortStrings(Tail(names)), Head(names))

\* The orders in which ranging over the Registry map can yield its keys.
MapOrders ==
    {f \in [1..Cardinality(Registry) -> Registry] : {f[i] : i \in DOMAIN f} = Registry}

\* Registry.List: the keys in map order, then sorted.
ListUnsorted(order) == order

List(order) == SortStrings(order)

\* A lookup whose error is dropped.
LookupSwallowed(name, order) == [op |-> "nil", cause |-> "nil", detail |-> <<>>]

\* Registry.Get for a name that is not registered.
RegistryGetError(name, order) ==
    [op |-> "creating workload", cause |-> "unknown workload",
     detail |-> <<name>> \o List(order)]

\* The names the --workloads flag is drawn from: two single-VM workloads, the
\* multi-VM one, and a name the registry does not know.
WorkloadInputs == {"cpu", "disk", "network", "nosuch"}
VMCountInputs == 0..MaxPlans

\* workloads.MultiVMWorkload is implemented by the network workload only.
IsMulti(name) == name = "network"

\* BaseWorkload.VMCount / NetworkWorkload.VMCount
VMCountUndoubled(name, configured) == IF configured < 1 THEN 1 ELSE configured

VMCount(name, configured) ==
    LET count == IF configured < 1 THEN 1 ELSE configured IN
    IF name = "network" THEN count * 2 ELSE count

NoServiceRequired(name) == FALSE

RequiresService(name) == name = "network"

\* NetworkWorkload.ServiceSpec as the workload returns it.
ServiceSpecOfWorkload(name, runID) ==
    [kind |-> "Service", name |-> "virtwork-iperf3-server",
     labels |-> (LabelAppName :> "virtwork") @@ (LabelManagedBy :> ManagedByValue)
                @@ (LabelComponent :> "network")]

\* NetworkWorkload.ServiceSpec, with the run-id label runE adds.
ServiceSpec(name, runID) ==
    [kind |-> "Service", name |-> "virtwork-iperf3-server",
     labels |-> (LabelAppName :> "virtwork") @@ (LabelManagedBy :> ManagedByValue)
                @@ (LabelComponent :> "network") @@ (LabelRunID :> runID)]

Roles == <<"server", "client">>

VMLabelsWithoutRunID(name, role, runID) ==
    (LabelAppName :> ("virtwork-" \o name)) @@ (LabelManagedBy :> ManagedByValue)
    @@ (LabelComponent :> name)

VMLabels(name, role, runID) ==
    LET base == (LabelAppName :> ("virtwork-" \o name)) @@ (LabelManagedBy :> ManagedByValue)
                @@ (LabelComponent :> name) @@ (LabelRunID :> runID) IN
    IF role = "" THEN base ELSE base @@ (LabelRole :> role)

\* fmt.Sprintf("virtwork-%s-%d", name, i) / fmt.Sprintf("virtwork-%s-%s-%d", name, role, i)
VMName(name, role, i) ==
    IF role = "" THEN "virtwork-" \o name \o "-" \o ToString(i)
    ELSE "virtwork-" \o name \o "-" \o role \o "-" \o ToString(i)

Plan(name, role, i, runID) ==
    [component |-> name, vmName |-> VMName(name, role, i), role |-> role,
     labels |-> VMLabels(name, role, runID), secretName |-> ""]

\* The plans one workload contributes, in order.
PlansOfWorkload(name, flag, runID) ==
    LET vmCount == VMCount(name, flag) IN
    IF ~IsMulti(name)
    THEN [i \in 1..vmCount |-> Plan(name, "", i - 1, runID)]
    ELSE LET perRole == vmCount \div Len(Roles) IN
         [i \in 1..(perRole * Len(Roles)) |->
             Plan(name, Roles[((i - 1) \div perRole) + 1], (i - 1) % perRole, runID)]

RECURSIVE PlansFor(_, _, _)
PlansFor(names, flag, runID) ==
    IF names = <<>> THEN <<>>
    ELSE PlansOfWorkload(Head(names), flag, runID) \o PlansFor(Tail(names), flag, runID)

SecretName(vmName) == vmName \o "-cloudinit"

\* The Secret without the run-id entry of secretLabels.
SecretWithoutRunID(plan, runID) ==
    [kind |-> "Secret", name |-> SecretName(plan.vmName),
     labels |-> (LabelAppName :> plan.labels[LabelAppName]) @@ (LabelManagedBy :> ManagedByValue)
                @@ (LabelComponent :> plan.component)]

SecretOf(plan, runID) ==
    [kind |-> "Secret", name |-> SecretName(plan.vmName),
     labels |-> (LabelAppName :> plan.labels[LabelAppName]) @@ (LabelManagedBy :> ManagedByValue)
                @@ (LabelComponent :> plan.component) @@ (LabelRunID :> runID)]

\* vm.BuildVMSpec(*p.vmSpec)
BuildVMSpec(plan) == [kind |-> "VM", name |-> plan.vmName, labels |-> plan.labels]

\* The order of runE's stages after the namespace is ensured.
VMsBeforeServices(stage) ==
    CASE stage = "ensureNS" -> "secrets"
      [] stage = "secrets" -> "fanout"
      [] stage = "fanout" -> "services"
      [] stage = "services" -> "wait"

VMsBeforeSecrets(stage) ==
    CASE stage = "ensureNS" -> "services"
      [] stage = "services" -> "fanout"
      [] stage = "fanout" -> "secrets"
      [] stage = "secrets" -> "wait"

NextRunStage(stage) ==
    CASE stage = "ensureNS" -> "services"
      [] stage = "services" -> "secrets"
      [] stage = "secrets" -> "fanout"
      [] stage = "fanout" -> "wait"

NoRunError == [op |-> "nil", cause |-> "nil", detail |-> <<>>]

\* g.Wait() with no goroutine having returned an error.
NoGroupError == [vm |-> "nil", cause |-> "nil"]

\* The run-id auditor.StartExecution mints for this execution.
RunID == RunA

Range(f) == {f[i] : i \in DOMAIN f}

\* The faults the API server injects during a run: one transient, one fatal.
RunFaults == {"ServiceUnavailable", "Forbidden"}

\* Every answer a gateway call of the run can get.
RunAnswers(op, o) == {StateAnswer(op, o, cluster, namespaceExists)} \cup RunFaults

\* A goroutine of the errgroup that has not been scheduled yet.
NewTask(plan) ==
    [started |-> FALSE,        \* vm.CreateVM has been called
     sawServices |-> {},       \* the Services whose create had returned nil by then
     secretDone |-> FALSE,     \* this plan's Secret create had returned nil by then
     secretExisted |-> FALSE,  \* the Secret the VM references was in the cluster then
     secretRef |-> "",         \* vmSpec.CloudInitSecretName
     call |-> NewCall("CreateVM", BuildVMSpec(plan))]

\* runE returns err.
RunReturns(op, cause) ==
    /\ runPc' = "done"
    /\ runErr' = [op |-> op, cause |-> cause, detail |-> <<>>]

\* A stage that goes on after its call failed.
KeepsGoing(op, subject, cause) == UNCHANGED <<runPc, runErr>>

\* runE returns fmt.Errorf("<op> %q: %w", subject, cause).
RunReturnsFor(op, subject, cause) ==
    /\ runPc' = "done"
    /\ runErr' = [op |-> op, cause |-> cause, detail |-> <<subject>>]

TaskStarted == \E i \in DOMAIN tasks : tasks[i].started

\* Lines 300-311: where runE goes once the plans are built.
AlwaysConnect(dry) == "connect"

AfterPlanning(dry) == IF dry THEN "done" ELSE "connect"

\* Lines 124-308: config, audit start, the plans, and the dry-run exit.
RunPlan ==
    /\ runPc = "plan"
    /\ \/ /\ \E i \in DOMAIN workloadNames : workloadNames[i] \notin Registry
          /\ LET first == CHOOSE i \in DOMAIN workloadNames :
                              /\ workloadNames[i] \notin Registry
                              /\ \A j \in 1..(i - 1) : workloadNames[j] \in Registry IN
             \E order \in MapOrders :
                /\ runPc' = "done"
                /\ runErr' = RegistryGetError(workloadNames[first], order)
          /\ UNCHANGED plans
       \/ /\ \E i \in DOMAIN workloadNames : \A j \in 1..i : workloadNames[j] \in Registry
          /\ RunReturns("generating cloud-init", "userdata")
          /\ UNCHANGED plans
       \/ /\ \A i \in DOMAIN workloadNames : workloadNames[i] \in Registry
          /\ plans' = PlansFor(workloadNames, vmCountFlag, RunID)
          /\ IF AfterPlanning(dryRun) = "done"
             THEN \/ RunReturns("nil", "nil")
                  \/ plans' # <<>> /\ RunReturns("marshaling VM spec", "yaml")
             ELSE runPc' = "connect" /\ UNCHANGED runErr
    /\ UNCHANGED <<workloadNames, vmCountFlag, dryRun, waitForReady, runIdx, nsCalls, svcCalls,
                   secCalls, tasks, gctxCancelled, groupErr, faults, waitResults,
                   servicesCreated, secretsCreated>>
    /\ UNCHANGED <<clusterVars, cleanupVars, gatewayVars, waitVars, mintVars>>

\* Lines 311-314: cluster.Connect.
RunConnect ==
    /\ runPc = "connect"
    /\ \/ runPc' = "ensureNS" /\ UNCHANGED runErr
       \/ RunReturns("connecting to cluster", "kubeconfig")
    /\ UNCHANGED <<workloadNames, vmCountFlag, dryRun, waitForReady, plans, runIdx,
                   nsCalls, svcCalls, secCalls, tasks, gctxCancelled, groupErr, faults,
                   waitResults, servicesCreated, secretsCreated>>
    /\ UNCHANGED <<clusterVars, cleanupVars, gatewayVars, waitVars, mintVars>>

\* Lines 317-321: resources.EnsureNamespace with the managed-by label.
RunEnsureNamespace ==
    /\ runPc = "ensureNS"
    /\ LET ns == [kind |-> "Namespace", name |-> "ns", labels |-> ManagedLabels] IN
       \E answer \in RunAnswers("EnsureNamespace", ns) :
          LET c == CreateOnce(NewCall("EnsureNamespace", ns), answer) IN
          /\ namespaceExists' = NamespaceAfter("EnsureNamespace", namespaceExists, answer)
          /\ nsCalls' = Append(nsCalls, [name |-> ns.name, labels |-> ns.labels,
                                           ret |-> c.ret])
          /\ IF c.ret # "nil"
             THEN RunReturnsFor("ensuring namespace", ns.name, c.ret)
             ELSE runPc' = NextRunStage("ensureNS") /\ UNCHANGED runErr
    /\ UNCHANGED <<workloadNames, vmCountFlag, dryRun, waitForReady, plans, runIdx,
                   svcCalls, secCalls, tasks, gctxCancelled, groupErr, faults,
                   waitResults, servicesCreated, secretsCreated>>
    /\ UNCHANGED <<cluster, cleanupVars, gatewayVars, waitVars, mintVars>>

\* Lines 326-364: one iteration of the services loop, or its exit.
RunService ==
    /\ runPc = "services"
    /\ IF runIdx > Len(workloadNames)
       THEN /\ runPc' = NextRunStage("services")
            /\ runIdx' = 1
            /\ UNCHANGED <<cluster, svcCalls, servicesCreated, runErr>>
       ELSE LET name == workloadNames[runIdx] IN
            IF name \notin Registry \/ ~RequiresService(name)
            THEN /\ runIdx' = runIdx + 1
                 /\ UNCHANGED <<cluster, svcCalls, servicesCreated, runErr, runPc>>
            ELSE LET svc == ServiceSpec(name, RunID) IN
                 \E answer \in RunAnswers("CreateService", svc) :
                    LET c == CreateOnce(NewCall("CreateService", svc), answer) IN
                    /\ cluster' = ClusterAfter("CreateService", svc, cluster, answer)
                    /\ svcCalls' = Append(svcCalls, [workload |-> name, name |-> svc.name,
                                                     ret |-> c.ret, vmStarted |-> TaskStarted])
                    /\ IF c.ret # "nil"
                       THEN /\ RunReturnsFor("creating service", name, c.ret)
                            /\ UNCHANGED <<runIdx, servicesCreated>>
                       ELSE /\ servicesCreated' = servicesCreated + 1
                            /\ runIdx' = runIdx + 1
                            /\ UNCHANGED <<runPc, runErr>>
    /\ UNCHANGED <<workloadNames, vmCountFlag, dryRun, waitForReady, plans, nsCalls,
                   secCalls, tasks, gctxCancelled, groupErr, faults, waitResults,
                   secretsCreated>>
    /\ UNCHANGED <<namespaceExists, cleanupVars, gatewayVars, waitVars, mintVars>>

\* Lines 368-389: one iteration of the secrets loop, or its exit.
RunSecret ==
    /\ runPc = "secrets"
    /\ IF runIdx > Len(plans)
       THEN /\ runPc' = NextRunStage("secrets")
            /\ runIdx' = 1
            /\ UNCHANGED <<cluster, secCalls, secretsCreated, runErr, plans>>
       ELSE LET secret == SecretOf(plans[runIdx], RunID) IN
            \E answer \in RunAnswers("CreateCloudInitSecret", secret) :
               LET c == CreateOnce(NewCall("CreateCloudInitSecret", secret), answer) IN
               /\ cluster' = ClusterAfter("CreateCloudInitSecret", secret, cluster, answer)
               /\ secCalls' = Append(secCalls,
                     [plan |-> runIdx, name |-> secret.name, ret |-> c.ret,
                      vmStarted |-> runIdx \in DOMAIN tasks /\ tasks[runIdx].started])
               /\ IF c.ret # "nil"
                  THEN /\ RunReturnsFor("creating cloud-init secret", plans[runIdx].vmName, c.ret)
                       /\ UNCHANGED <<runIdx, secretsCreated, plans>>
                  ELSE /\ plans' = [plans EXCEPT ![runIdx].secretName = secret.name]
                       /\ secretsCreated' = secretsCreated + 1
                       /\ runIdx' = runIdx + 1
                       /\ UNCHANGED <<runPc, runErr>>
    /\ UNCHANGED <<workloadNames, vmCountFlag, dryRun, waitForReady, nsCalls, svcCalls,
                   tasks, gctxCancelled, groupErr, faults, waitResults, servicesCreated>>
    /\ UNCHANGED <<namespaceExists, cleanupVars, gatewayVars, waitVars, mintVars>>

\* Lines 392-425: errgroup.WithContext and one g.Go per plan.
RunFanOut ==
    /\ runPc = "fanout"
    /\ tasks' = [i \in DOMAIN plans |-> NewTask(plans[i])]
    /\ gctxCancelled' = FALSE
    /\ groupErr' = NoGroupError
    /\ runPc' = "gwait"
    /\ UNCHANGED <<workloadNames, vmCountFlag, dryRun, waitForReady, plans, runIdx,
                   nsCalls, svcCalls, secCalls, faults, runErr, waitResults, servicesCreated,
                   secretsCreated>>
    /\ UNCHANGED <<clusterVars, cleanupVars, gatewayVars, waitVars, mintVars>>

\* What the goroutine of plan i finds when it calls vm.CreateVM.
Started(t, i) ==
    IF t.started THEN t
    ELSE [t EXCEPT !.started = TRUE,
                   !.sawServices = {svcCalls[k].name : k \in {j \in DOMAIN svcCalls : svcCalls[j].ret = "nil"}},
                   !.secretDone = \E k \in DOMAIN secCalls : secCalls[k].plan = i /\ secCalls[k].ret = "nil",
                   !.secretRef = plans[i].secretName,
                   !.secretExisted = \E x \in cluster : x.kind = "Secret" /\ x.name = plans[i].secretName]

\* A group made with new(errgroup.Group): the error is kept, nothing is cancelled.
GroupWithoutCancel(c) ==
    /\ groupErr' = IF c.pc = "returned" /\ c.ret # "nil" /\ groupErr = NoGroupError
                   THEN [vm |-> c.obj.name, cause |-> c.ret]
                   ELSE groupErr
    /\ UNCHANGED gctxCancelled

\* A group that drops what its goroutines return.
GroupForgets(c) == UNCHANGED <<groupErr, gctxCancelled>>

\* errgroup: the first goroutine to return an error sets it and cancels gctx;
\* the goroutine's error is `creating VM %q: %w` with the plan's VM name.
GroupAfter(c) ==
    /\ groupErr' = IF c.pc = "returned" /\ c.ret # "nil" /\ groupErr = NoGroupError
                   THEN [vm |-> c.obj.name, cause |-> c.ret]
                   ELSE groupErr
    /\ gctxCancelled' = (gctxCancelled \/ (c.pc = "returned" /\ c.ret # "nil"))

\* The goroutine of plan i: the context check and one attempt of vm.CreateVM(gctx),
\* with at most `budget` injected API faults in the whole fan-out.
TaskCreateVMWith(i, budget) ==
    /\ runPc = "gwait"
    /\ tasks[i].call.pc = "attempt"
    /\ LET t == Started(tasks[i], i) IN
       IF gctxCancelled
       THEN /\ tasks' = [tasks EXCEPT ![i] = [t EXCEPT !.call = Returned(t.call, "Cancelled")]]
            /\ GroupAfter(Returned(t.call, "Cancelled"))
            /\ UNCHANGED <<cluster, faults>>
       ELSE \E answer \in (IF faults < budget
                           THEN RunAnswers("CreateVM", t.call.obj)
                           ELSE {StateAnswer("CreateVM", t.call.obj, cluster, namespaceExists)}) :
               LET c == RetryAttempt(t.call, answer) IN
               /\ tasks' = [tasks EXCEPT ![i] = [t EXCEPT !.call = c]]
               /\ cluster' = ClusterAfter("CreateVM", t.call.obj, cluster, answer)
               /\ faults' = IF answer \in RunFaults THEN faults + 1 ELSE faults
               /\ GroupAfter(c)
    /\ UNCHANGED <<workloadNames, vmCountFlag, dryRun, waitForReady, plans, runIdx,
                   nsCalls, svcCalls, secCalls, runErr, runPc, waitResults, servicesCreated,
                   secretsCreated>>
    /\ UNCHANGED <<namespaceExists, cleanupVars, gatewayVars, waitVars, mintVars>>

TaskCreateVM(i) == TaskCreateVMWith(i, MaxFaults)

\* The goroutine of plan i in its backoff sleep: the timer or gctx.Done().
TaskBackoff(i) ==
    /\ runPc = "gwait"
    /\ tasks[i].call.pc = "sleep"
    /\ LET c == IF gctxCancelled THEN Returned(tasks[i].call, "Cancelled")
                ELSE AfterSleep(tasks[i].call) IN
       /\ tasks' = [tasks EXCEPT ![i].call = c]
       /\ GroupAfter(c)
    /\ UNCHANGED <<workloadNames, vmCountFlag, dryRun, waitForReady, plans, runIdx,
                   nsCalls, svcCalls, secCalls, faults, runErr, runPc, waitResults,
                   servicesCreated, secretsCreated>>
    /\ UNCHANGED <<clusterVars, cleanupVars, gatewayVars, waitVars, mintVars>>

\* Lines 426-428: g.Wait.
RunGroupWait ==
    /\ runPc = "gwait"
    /\ \A i \in DOMAIN tasks : tasks[i].call.pc = "returned"
    /\ IF groupErr # NoGroupError
       THEN RunReturnsFor("creating VMs", groupErr.vm, groupErr.cause)
       ELSE runPc' = NextRunStage("fanout") /\ UNCHANGED runErr
    /\ UNCHANGED <<workloadNames, vmCountFlag, dryRun, waitForReady, plans, runIdx,
                   nsCalls, svcCalls, secCalls, tasks, gctxCancelled, groupErr, faults,
                   waitResults, servicesCreated, secretsCreated>>
    /\ UNCHANGED <<clusterVars, cleanupVars, gatewayVars, waitVars, mintVars>>

VMNames == {plans[i].vmName : i \in DOMAIN plans}

\* Lines 437-452: a result loop that counts nothing.
NoFailures(results) == {}

\* Lines 437-452: the names whose result is an error (each is printed and counted).
Failures(results) == {n \in DOMAIN results : results[n] # "nil"}

\* Line 454: fmt.Errorf("%d of %d VMs failed readiness check", failures, len(vmNames)).
ReadinessError(failures, total) ==
    [op |-> "VMs failed readiness check", cause |-> "readiness",
     detail |-> <<failures, total>>]

\* Lines 431-473: the readiness wait, the audit completion and the summary.
RunWaitReady ==
    /\ runPc = "wait"
    /\ IF waitForReady
       THEN \E results \in [VMNames -> {"nil", "timeout"}] :
               /\ waitResults' = results
               /\ IF Cardinality(Failures(results)) > 0
                  THEN /\ runPc' = "done"
                       /\ runErr' = ReadinessError(Cardinality(Failures(results)),
                                                   Len(plans))
                  ELSE RunReturns("nil", "nil")
       ELSE /\ RunReturns("nil", "nil")
            /\ UNCHANGED waitResults
    /\ UNCHANGED <<workloadNames, vmCountFlag, dryRun, waitForReady, plans, runIdx,
                   nsCalls, svcCalls, secCalls, tasks, gctxCancelled, groupErr, faults,
                   servicesCreated, secretsCreated>>
    /\ UNCHANGED <<clusterVars, cleanupVars, gatewayVars, waitVars, mintVars>>

\* An object an earlier run left in the namespace.
StaleObjects ==
    {[kind |-> "Service", name |-> "virtwork-iperf3-server", labels |-> ManagedRun(RunB)],
     [kind |-> "VM", name |-> "virtwork-cpu-0", labels |-> ManagedRun(RunB)]}

RECURSIVE SeqsUpTo(_, _)
SeqsUpTo(S, n) ==
    IF n = 0 THEN {<<>>}
    ELSE LET shorter == SeqsUpTo(S, n - 1) IN
         shorter \cup {Append(q, x) : q \in shorter, x \in S}

InitRun ==
    /\ namespaceExists \in BOOLEAN
    /\ cluster \in (IF namespaceExists THEN {{}, StaleObjects} ELSE {{}})
    /\ workloadNames \in SeqsUpTo(WorkloadInputs, MaxWorkloads)
    /\ vmCountFlag \in VMCountInputs
    /\ \/ \E i \in DOMAIN workloadNames : workloadNames[i] \notin Registry
       \/ Len(PlansFor(workloadNames, vmCountFlag, RunID)) <= MaxPlans
    /\ dryRun \in BOOLEAN
    /\ waitForReady \in BOOLEAN
    /\ runPc = "plan"
    /\ plans = <<>>
    /\ runIdx = 1
    /\ nsCalls = <<>>
    /\ svcCalls = <<>>
    /\ secCalls = <<>>
    /\ tasks = <<>>
    /\ gctxCancelled = FALSE
    /\ groupErr = NoGroupError
    /\ faults = 0
    /\ runErr = NoRunError
    /\ waitResults = <<>>
    /\ servicesCreated = 0
    /\ secretsCreated = 0
    /\ GatewayIdle
    /\ CleanupIdle
    /\ WaitIdle
    /\ MintIdle

NextRun ==
    \/ RunPlan
    \/ RunConnect
    \/ RunEnsureNamespace
    \/ RunService
    \/ RunSecret
    \/ RunFanOut
    \/ \E i \in DOMAIN tasks : TaskCreateVM(i)
    \/ \E i \in DOMAIN tasks : TaskBackoff(i)
    \/ RunGroupWait
    \/ RunWaitReady

SpecRun == InitRun /\ [][NextRun]_vars

\* ---- The fan-out on its own: runE from line 391 on, with room for two faults

MaxFanOutFaults == 2

\* The --workloads values the fan-out is entered with here.
FanOutInputs == {<<"cpu">>, <<"network">>, <<"cpu", "disk">>, <<"cpu", "network">>}

\* The plans as the secrets loop leaves them (line 380).
PlansWithSecrets(names, count) ==
    LET ps == PlansFor(names, count, RunID) IN
    [i \in DOMAIN ps |-> [ps[i] EXCEPT !.secretName = SecretName(ps[i].vmName)]]

\* runE at line 391: namespace ensured, every Service and Secret created.
InitFanOut ==
    /\ namespaceExists = TRUE
    /\ workloadNames \in FanOutInputs
    /\ vmCountFlag = 1
    /\ dryRun = FALSE
    /\ waitForReady \in BOOLEAN
    /\ plans = PlansWithSecrets(workloadNames, vmCountFlag)
    /\ \E stale \in {{}, StaleObjects} :
          cluster = stale
                    \cup {ServiceSpec(n, RunID) : n \in {m \in Range(workloadNames) : RequiresService(m)}}
                    \cup {SecretOf(plans[i], RunID) : i \in DOMAIN plans}
    /\ runPc = "fanout"
    /\ runIdx = 1
    /\ nsCalls = <<[name |-> "ns", labels |-> ManagedLabels, ret |-> "nil"]>>
    /\ svcCalls = IF \E n \in Range(workloadNames) : RequiresService(n)
                  THEN <<[workload |-> "network", name |-> ServiceSpec("network", RunID).name,
                          ret |-> "nil", vmStarted |-> FALSE]>>
                  ELSE <<>>
    /\ secCalls = [i \in DOMAIN plans |->
                     [plan |-> i, name |-> SecretName(plans[i].vmName), ret |-> "nil",
                      vmStarted |-> FALSE]]
    /\ tasks = <<>>
    /\ gctxCancelled = FALSE
    /\ groupErr = NoGroupError
    /\ faults = 0
    /\ runErr = NoRunError
    /\ waitResults = <<>>
    /\ servicesCreated = Len(svcCalls)
    /\ secretsCreated = Len(secCalls)
    /\ GatewayIdle
    /\ CleanupIdle
    /\ WaitIdle
    /\ MintIdle

NextFanOut ==
    \/ RunFanOut
    \/ \E i \in DOMAIN tasks : TaskCreateVMWith(i, MaxFanOutFaults)
    \/ \E i \in DOMAIN tasks : TaskBackoff(i)
    \/ RunGroupWait
    \/ RunWaitReady

SpecFanOut == InitFanOut /\ [][NextFanOut]_vars

----------------------------------------------------------------------------
(* Properties of the run orchestrator *)

\* The Services the planned workloads require.
RequiredServices ==
    {ServiceSpec(plans[i].component, RunID).name :
        i \in {j \in DOMAIN plans : plans[j].role = "client"}}

\* C4: when any VM create call is issued, every Service the planned workloads
\* require has had its create return nil, and no Service create is ever made
\* after a VM create call has been issued.
C4_ServicesBeforeVMs ==
    /\ \A i \in DOMAIN tasks :
          tasks[i].started => RequiredServices \subseteq tasks[i].sawServices
    /\ \A k \in DOMAIN svcCalls : ~svcCalls[k].vmStarted

C4_Witness ==
    /\ \E i \in DOMAIN tasks :
          /\ tasks[i].call.attempts > 0
          /\ plans[i].role = "client"
          /\ "virtwork-iperf3-server" \in tasks[i].sawServices
    /\ \E k \in DOMAIN svcCalls : svcCalls[k].ret = "nil"

SecretCallsFor(i) == {k \in DOMAIN secCalls : secCalls[k].plan = i}

\* C5: no plan ever has more than one Secret create; when the create call for a
\* plan's VM is issued, exactly one Secret create was made for that plan and it
\* returned nil, the VM references that Secret, and the Secret is in the cluster;
\* no Secret create follows the VM create of its plan.
C5_SecretBeforeVM ==
    /\ \A i \in DOMAIN plans : Cardinality(SecretCallsFor(i)) <= 1
    /\ \A i \in DOMAIN tasks :
          tasks[i].started =>
             /\ Cardinality(SecretCallsFor(i)) = 1
             /\ tasks[i].secretDone
             /\ tasks[i].secretRef = SecretName(plans[i].vmName)
             /\ tasks[i].secretExisted
             /\ \E x \in cluster : x.kind = "Secret" /\ x.name = tasks[i].secretRef
    /\ \A k \in DOMAIN secCalls : ~secCalls[k].vmStarted

C5_Witness ==
    /\ Len(plans) >= 2
    /\ \A i \in DOMAIN tasks :
          /\ tasks[i].call.pc = "returned"
          /\ tasks[i].call.ret = "nil"
          /\ tasks[i].secretRef = SecretName(plans[i].vmName)
    /\ tasks # <<>>

----------------------------------------------------------------------------
(* The readiness poller: wait.WaitForVMReady, wait.WaitForAllVMsReady *)

MaxVMs == 2

TimeoutInputs == {2, 3}
IntervalInputs == {1, 2}

VMPool == <<"vm-1", "vm-2", "vm-3">>

Phases == {"absent", "Pending", "Running"}

\* The goroutine WaitForAllVMsReady starts for one name.
NewWaiter(name) ==
    [name |-> name, pc |-> "new",
     deadline |-> 0,        \* time.Now().Add(timeout), set on entry
     wake |-> 0,            \* when time.After(interval) fires
     lastRead |-> "none",   \* what the latest c.Get answered
     reads |-> 0,           \* c.Get calls made
     err |-> "none"]

\* The ctx a goroutine's WaitForVMReady is given: the caller's own.
GroupContext(callerCancelled, siblingFailed) == callerCancelled \/ siblingFailed

TaskContext(callerCancelled, siblingFailed) == callerCancelled

SiblingFailed(i) ==
    \E j \in DOMAIN wTasks : j # i /\ wTasks[j].pc = "done" /\ wTasks[j].err # "nil"

CtxDone(i) == TaskContext(wCtxCancelled, SiblingFailed(i))

\* WaitForVMReady returns err; the goroutine stores it in results under the mutex.
Finish(i, t, err) ==
    /\ wTasks' = [wTasks EXCEPT ![i] = [t EXCEPT !.pc = "done", !.err = err]]
    /\ wResults' = (t.name :> err) @@ wResults

\* c.Get's answer for the instance.
GetAnswers(name) == {IF phase[name] = "absent" THEN "NotFound" ELSE phase[name], "error"}

\* time.Now().After(deadline)
NeverAfter(t, deadline) == FALSE

After(t, deadline) == t > deadline

\* A read that takes not-found for a failure.
NotFoundFails(answer) == answer \in {"error", "NotFound"}

\* Lines 340-343: c.Get returned an error that is not not-found.
ReadFails(answer) == answer = "error"

\* A loop that looks at the deadline before the context.
DeadlineFirst(cancelled, late) ==
    IF late THEN "timeout" ELSE IF cancelled THEN "cancelled" ELSE "read"

\* The top of the loop (lines 330-336): ctx.Err() first, then the deadline.
LoopCheck(cancelled, late) ==
    IF cancelled THEN "cancelled" ELSE IF late THEN "timeout" ELSE "read"

\* One pass of WaitForVMReady's loop up to its sleep (lines 329-361).
WaitPoll(i) ==
    /\ wTasks[i].pc \in {"new", "check"}
    /\ LET t == IF wTasks[i].pc = "new"
                THEN [wTasks[i] EXCEPT !.deadline = now + wTimeout]
                ELSE wTasks[i] IN
       IF LoopCheck(CtxDone(i), After(now, t.deadline)) # "read"
       THEN Finish(i, t, LoopCheck(CtxDone(i), After(now, t.deadline)))
       ELSE \E answer \in GetAnswers(t.name) :
               LET read == [t EXCEPT !.lastRead = answer, !.reads = @ + 1] IN
               IF ReadFails(answer) THEN Finish(i, read, "readError")
               ELSE IF answer = "Running" THEN Finish(i, read, "nil")
               ELSE /\ wTasks' = [wTasks EXCEPT ![i] =
                                    [read EXCEPT !.pc = "sleep", !.wake = now + wInterval]]
                    /\ UNCHANGED wResults
    /\ UNCHANGED <<now, wNames, wTimeout, wInterval, phase, phase0, inTime,
                   wCtxCancelled, wReturned>>
    /\ UNCHANGED <<clusterVars, cleanupVars, gatewayVars, runVars, mintVars>>

\* The select after a poll: ctx.Done() or time.After(interval).
WaitWake(i) ==
    /\ wTasks[i].pc = "sleep"
    /\ \/ /\ CtxDone(i)
          /\ Finish(i, wTasks[i], "cancelled")
       \/ /\ now >= wTasks[i].wake
          /\ wTasks' = [wTasks EXCEPT ![i].pc = "check"]
          /\ UNCHANGED wResults
    /\ UNCHANGED <<now, wNames, wTimeout, wInterval, phase, phase0, inTime,
                   wCtxCancelled, wReturned>>
    /\ UNCHANGED <<clusterVars, cleanupVars, gatewayVars, runVars, mintVars>>

\* Time passes while every goroutine still running is asleep.
WaitTick ==
    /\ ~wReturned
    /\ \E i \in DOMAIN wTasks : wTasks[i].pc = "sleep"
    /\ \A i \in DOMAIN wTasks :
          \/ wTasks[i].pc = "done"
          \/ wTasks[i].pc = "sleep" /\ wTasks[i].wake > now /\ ~CtxDone(i)
    /\ now' = now + 1
    /\ UNCHANGED <<wNames, wTimeout, wInterval, wTasks, phase, phase0, inTime,
                   wCtxCancelled, wResults, wReturned>>
    /\ UNCHANGED <<clusterVars, cleanupVars, gatewayVars, runVars, mintVars>>

\* The deadline of the goroutine polling a name (its own once it has started).
DeadlineOf(name) ==
    LET i == CHOOSE j \in DOMAIN wTasks : wTasks[j].name = name IN
    IF wTasks[i].pc = "new" THEN now + wTimeout ELSE wTasks[i].deadline

\* The cluster moves an instance on: created, then Running.
WaitPhase(name) ==
    /\ ~wReturned
    /\ phase[name] # "Running"
    /\ LET next == IF phase[name] = "absent" THEN "Pending" ELSE "Running" IN
       /\ phase' = [phase EXCEPT ![name] = next]
       /\ inTime' = [inTime EXCEPT ![name] = @ \/ (next = "Running" /\ now < DeadlineOf(name))]
    /\ UNCHANGED <<now, wNames, wTimeout, wInterval, wTasks, phase0, wCtxCancelled,
                   wResults, wReturned>>
    /\ UNCHANGED <<clusterVars, cleanupVars, gatewayVars, runVars, mintVars>>

\* The caller cancels ctx.
WaitCancel ==
    /\ ~wReturned
    /\ ~wCtxCancelled
    /\ wCtxCancelled' = TRUE
    /\ UNCHANGED <<now, wNames, wTimeout, wInterval, wTasks, phase, phase0, inTime,
                   wResults, wReturned>>
    /\ UNCHANGED <<clusterVars, cleanupVars, gatewayVars, runVars, mintVars>>

\* wg.Wait returns and WaitForAllVMsReady returns results.
WaitReturn ==
    /\ ~wReturned
    /\ \A i \in DOMAIN wTasks : wTasks[i].pc = "done"
    /\ wReturned' = TRUE
    /\ UNCHANGED <<now, wNames, wTimeout, wInterval, wTasks, phase, phase0, inTime,
                   wCtxCancelled, wResults>>
    /\ UNCHANGED <<clusterVars, cleanupVars, gatewayVars, runVars, mintVars>>

\* WaitForAllVMsReady is called with one of the given name lists.
InitWaitOn(nameLists) ==
    /\ now = 0
    /\ wNames \in nameLists
    /\ wTimeout \in TimeoutInputs
    /\ wInterval \in IntervalInputs
    /\ wTasks = [i \in DOMAIN wNames |-> NewWaiter(wNames[i])]
    /\ phase \in [Range(wNames) -> Phases]
    /\ phase0 = phase
    /\ inTime = [n \in Range(wNames) |-> phase[n] = "Running"]
    /\ wCtxCancelled = FALSE
    /\ wResults = <<>>
    /\ wReturned = FALSE
    /\ cluster = {}
    /\ namespaceExists = TRUE
    /\ CleanupIdle
    /\ GatewayIdle
    /\ RunIdle
    /\ MintIdle

InitWait == InitWaitOn({SubSeq(VMPool, 1, n) : n \in 1..MaxVMs})

NextWait ==
    \/ \E i \in DOMAIN wTasks : WaitPoll(i)
    \/ \E i \in DOMAIN wTasks : WaitWake(i)
    \/ WaitTick
    \/ \E name \in Range(wNames) : WaitPhase(name)
    \/ WaitCancel
    \/ WaitReturn

SpecWait == InitWait /\ [][NextWait]_vars

\* ---- A wait whose name list names one VM several times, as runE's vmNames
\* does when --workloads names a kind several times

RepeatedNames == {[i \in 1..n |-> VMPool[1]] : n \in 1..MaxVMs}

InitWaitRepeated == InitWaitOn(RepeatedNames)

SpecWaitRepeated == InitWaitRepeated /\ [][NextWait]_vars

\* ---- The run identifier: auditor.StartExecution and the labels made from it

MaxInvocations == 3
MaxLabelled == 2

Commands == {"run", "dry-run", "cleanup"}

\* initAuditor: the SQLite auditor, or the no-op one with --no-audit or
\* auditing disabled.
AuditorKinds == {"sqlite", "noop"}

\* uuid.New().String(): a value no earlier call returned.
Uuid(n) == "uuid-" \o ToString(n)

\* SQLiteAuditor.StartExecution and NoOpAuditor.StartExecution: the run-id
\* returned, "" with an error or from the no-op auditor.
StartExecution(auditor, dbOk, n) ==
    IF auditor = "noop" THEN [runID |-> "", err |-> "nil"]
    ELSE IF dbOk THEN [runID |-> Uuid(n), err |-> "nil"]
    ELSE [runID |-> "", err |-> "inserting audit_log"]

\* runE / cleanupE up to the deferred completion: the auditor is chosen and
\* StartExecution is called once.
Invoke ==
    /\ Len(invocations) < MaxInvocations
    /\ \A k \in DOMAIN invocations : invocations[k].finished
    /\ \E cmd \in Commands, auditor \in AuditorKinds, dbOk \in BOOLEAN :
          LET started == StartExecution(auditor, dbOk, Len(invocations) + 1) IN
          invocations' = Append(invocations,
              [cmd |-> cmd, auditor |-> auditor, runID |-> started.runID,
               err |-> started.err, labelled |-> <<>>,
               finished |-> started.err # "nil"])
    /\ UNCHANGED <<clusterVars, cleanupVars, gatewayVars, runVars, waitVars>>

\* A run labels one more resource with its runID.
Label ==
    /\ invocations # <<>>
    /\ LET k == Len(invocations) IN
       /\ ~invocations[k].finished
       /\ invocations[k].cmd = "run"
       /\ Len(invocations[k].labelled) < MaxLabelled
       /\ invocations' = [invocations EXCEPT ![k].labelled = Append(@, invocations[k].runID)]
    /\ UNCHANGED <<clusterVars, cleanupVars, gatewayVars, runVars, waitVars>>

\* The invocation returns.
Finished ==
    /\ invocations # <<>>
    /\ ~invocations[Len(invocations)].finished
    /\ invocations' = [invocations EXCEPT ![Len(invocations)].finished = TRUE]
    /\ UNCHANGED <<clusterVars, cleanupVars, gatewayVars, runVars, waitVars>>

InitMint ==
    /\ invocations = <<>>
    /\ cluster = {}
    /\ namespaceExists = TRUE
    /\ CleanupIdle
    /\ GatewayIdle
    /\ RunIdle
    /\ WaitIdle

NextMint == Invoke \/ Label \/ Finished

SpecMint == InitMint /\ [][NextMint]_vars

\* ---- One cancellable operation: a gateway call up to its return, or a wait

NextCancel ==
    \/ wNames = <<>> /\ call.pc # "returned" /\ NextGateway
    \/ wNames # <<>> /\ NextWait

SpecCancel == (InitGateway \/ InitWait) /\ [][NextCancel]_vars

----------------------------------------------------------------------------
(* Properties of the readiness poller *)

Done(i) == wTasks[i].pc = "done"

\* C10 as stated: every VM whose instance reaches Running before the deadline
\* gets a nil result (even with no caller cancellation and no failed read of
\* that VM).
C10_IndependenceAsStated ==
    \A i \in DOMAIN wTasks :
       (Len(wNames) >= 2 /\ Done(i) /\ inTime[wTasks[i].name] /\ ~wCtxCancelled /\ wTasks[i].lastRead # "error")
           => wTasks[i].err = "nil"

\* C10: a goroutine's result follows from its own polling alone, whatever the
\* other VMs' results are. It is nil exactly when its latest read found the
\* instance Running; a cancellation error only when the caller cancelled ctx; a
\* timeout only when its own deadline has passed; a read error only when its own
\* read failed; and a VM that was Running when the wait was called gets nil
\* unless the caller cancelled or its own read failed.
C10_ReadinessIndependence ==
    \A i \in DOMAIN wTasks :
       Done(i) =>
          /\ (wTasks[i].err = "nil") <=> (wTasks[i].lastRead = "Running")
          /\ wTasks[i].err = "nil" => phase[wTasks[i].name] = "Running"
          /\ wTasks[i].err = "cancelled" => wCtxCancelled
          /\ wTasks[i].err = "timeout" => now > wTasks[i].deadline
          /\ wTasks[i].err = "readError" => wTasks[i].lastRead = "error"
          /\ (phase0[wTasks[i].name] = "Running" /\ ~wCtxCancelled /\ wTasks[i].lastRead # "error")
                => wTasks[i].err = "nil"
          /\ wResults[wTasks[i].name] = wTasks[i].err

\* One VM times out while another, not Running when the wait was called, is
\* read Running and gets nil.
C10_Witness ==
    /\ wReturned
    /\ ~wCtxCancelled
    /\ \E i, j \in DOMAIN wTasks :
          /\ wTasks[i].err = "timeout"
          /\ wTasks[j].err = "nil"
          /\ phase0[wTasks[j].name] # "Running"

\* C11 as stated: the wait returns no later than the timeout after its start
\* (the call starts at time 0).
C11_TimeoutBoundAsStated == wReturned => now <= wTimeout

\* C11: the wait returns no later than the timeout plus one poll interval after
\* its start, and every goroutine has finished by then; a goroutine that timed
\* out finished after the timeout.
C11_TimeoutBound ==
    /\ wReturned => now <= wTimeout + wInterval
    /\ \A i \in DOMAIN wTasks :
          /\ wTasks[i].pc # "new" => wTasks[i].deadline = wTimeout
          /\ wTasks[i].pc = "sleep" => wTasks[i].wake <= wTimeout + wInterval
          /\ ~wReturned => now <= wTimeout + wInterval
          /\ (Done(i) /\ wTasks[i].err = "timeout") => now > wTimeout

C11_Witness ==
    /\ wReturned
    /\ ~wCtxCancelled
    /\ now = wTimeout + wInterval
    /\ \E i \in DOMAIN wTasks : wTasks[i].err = "timeout"
    /\ \E i \in DOMAIN wTasks : wTasks[i].err = "nil"

\* The errors runE can return before it touches the cluster.
PlanningErrors == {"creating workload", "generating cloud-init", "marshaling VM spec"}

\* No gateway call of the run has been made.
NoClusterCall ==
    /\ nsCalls = <<>>
    /\ svcCalls = <<>>
    /\ secCalls = <<>>
    /\ tasks = <<>>
    /\ waitResults = <<>>
    /\ servicesCreated = 0
    /\ secretsCreated = 0

\* C12: a dry run never reaches cluster.Connect or any later stage, makes no
\* gateway call and leaves the cluster and the namespace as they were, whatever
\* their state; once every workload is known and the specs are generated and
\* rendered, it returns nil.
C12_DryRunTouchesNothing ==
    /\ [](dryRun =>
            /\ runPc \in {"plan", "done"}
            /\ NoClusterCall
            /\ runErr.op \in {"nil"} \cup PlanningErrors
            /\ (runPc = "done" /\ runErr.op \notin PlanningErrors) => runErr = NoRunError)
    /\ [][dryRun => UNCHANGED clusterVars]_vars

C12_Witness ==
    /\ dryRun
    /\ runPc = "done"
    /\ runErr = NoRunError
    /\ Len(plans) >= 2
    /\ ~namespaceExists

PlansOf(name) == {i \in DOMAIN plans : plans[i].component = name}

PlansOfRole(name, role) == {i \in PlansOf(name) : plans[i].role = role}

NamesOf(indices) == {plans[i].vmName : i \in indices}

Occurrences(name) ==
    Cardinality({i \in DOMAIN workloadNames : workloadNames[i] = name})

\* C13: with a positive count N, each requested single-role workload has N
\* plans named virtwork-<name>-0 .. virtwork-<name>-(N-1), and the network
\* workload has 2N plans, N per role, named virtwork-network-<role>-0 ..
\* -(N-1); VMCount gives 2N for it and the division by the two roles gives N.
\* (A workload named k times on the command line has k times as many plans, with
\* the same names.)
C13_CountExpansion ==
    (plans # <<>> /\ vmCountFlag >= 1) =>
       \A name \in Range(workloadNames) :
          LET N == vmCountFlag
              k == Occurrences(name) IN
          IF name # "network"
          THEN /\ Cardinality(PlansOf(name)) = k * N
               /\ NamesOf(PlansOf(name)) =
                     {"virtwork-" \o name \o "-" \o ToString(n) : n \in 0..(N - 1)}
               /\ Cardinality(NamesOf(PlansOf(name))) = N
               /\ \A i \in PlansOf(name) : plans[i].role = ""
          ELSE /\ Cardinality(PlansOf(name)) = k * 2 * N
               /\ VMCount(name, N) = 2 * N
               /\ VMCount(name, N) \div Len(Roles) = N
               /\ \A role \in {"server", "client"} :
                     /\ Cardinality(PlansOfRole(name, role)) = k * N
                     /\ NamesOf(PlansOfRole(name, role)) =
                           {"virtwork-network-" \o role \o "-" \o ToString(n) : n \in 0..(N - 1)}
                     /\ Cardinality(NamesOf(PlansOfRole(name, role))) = N
               /\ \A i \in PlansOf(name) : plans[i].role \in {"server", "client"}

C13_Witness ==
    /\ vmCountFlag = 2
    /\ workloadNames = <<"network">>
    /\ Len(plans) = 4
    /\ NamesOf(PlansOfRole("network", "client")) =
          {"virtwork-network-client-0", "virtwork-network-client-1"}

HasLabel(o, key, value) == key \in DOMAIN o.labels /\ o.labels[key] = value

\* The labels the claim requires on the VM spec of plan p.
LabelsComplete(o, p) ==
    /\ HasLabel(o, "app.kubernetes.io/managed-by", "virtwork")
    /\ HasLabel(o, "virtwork/run-id", RunID)
    /\ HasLabel(o, "app.kubernetes.io/component", p.component)
    /\ p.component = "network" =>
          /\ p.role \in {"server", "client"}
          /\ HasLabel(o, "virtwork/role", p.role)
    /\ p.component # "network" => "virtwork/role" \notin DOMAIN o.labels

\* C14: the VM spec built from every plan of the run, and the spec every VM
\* create call of the run sends, carries managed-by=virtwork, the run-id of the
\* run and the plan's component; those of the network workload carry
\* virtwork/role with the plan's role, server or client.
C14_LabelCompleteness ==
    /\ \A i \in DOMAIN plans :
          /\ plans[i].component \in Range(workloadNames)
          /\ LabelsComplete(BuildVMSpec(plans[i]), plans[i])
    /\ \A i \in DOMAIN tasks :
          /\ tasks[i].call.obj.name = plans[i].vmName
          /\ LabelsComplete(tasks[i].call.obj, plans[i])

C14_Witness ==
    /\ \E i \in DOMAIN tasks :
          /\ plans[i].role = "client"
          /\ tasks[i].call.ret = "nil"
          /\ tasks[i].call.pc = "returned"
          /\ tasks[i].call.obj \in cluster
          /\ HasLabel(tasks[i].call.obj, LabelRole, "client")
    /\ \E i \in DOMAIN plans : plans[i].component = "cpu"

----------------------------------------------------------------------------
(* Further properties of the cleanup pass *)

ListFailed == \E k \in DOMAIN listLog : listLog[k].answer = "error"

DeleteFailed == \E k \in DOMAIN deleteLog : deleteLog[k].answer = "error"

\* C15: CleanupAll returns an error exactly when one of its List calls failed
\* (and then it is that listing error, returned at once); a failed delete of a
\* VM, Service, Secret or of the namespace is never the returned error.
C15_TopLevelErrorIffListFails ==
    /\ cleanupPc = "done" => ((cleanupErr # NoError) <=> ListFailed)
    /\ cleanupErr # NoError =>
          /\ cleanupPc = "done"
          /\ cleanupErr.op = "listing"
          /\ listLog[Len(listLog)] = [kind |-> cleanupErr.kind, answer |-> "error"]
    /\ ListFailed => cleanupPc = "done"

C15_Witness ==
    /\ cleanupPc = "done"
    /\ cleanupErr = NoError
    /\ \E k \in DOMAIN deleteLog : deleteLog[k].kind = "VM" /\ deleteLog[k].answer = "error"
    /\ \E k \in DOMAIN deleteLog : deleteLog[k].kind = "Namespace" /\ deleteLog[k].answer = "error"
    /\ Len(listLog) = 3

\* The place of a kind in the order the claim fixes.
Rank(kind) ==
    CASE kind = "VM" -> 1
      [] kind = "Service" -> 2
      [] kind = "Secret" -> 3
      [] kind = "Namespace" -> 4

NamespaceCalls == {k \in DOMAIN deleteLog : deleteLog[k].kind = "Namespace"}

\* C16: the Delete calls of a pass are ordered VMs, then Services, then
\* Secrets, then the namespace; there is never more than one namespace Delete
\* and none unless it was requested; a pass that was asked to delete the
\* namespace and was not ended by a listing failure has made exactly one, as its
\* last call.
C16_DeleteOrder ==
    /\ \A i, j \in DOMAIN deleteLog :
          i < j => Rank(deleteLog[i].kind) <= Rank(deleteLog[j].kind)
    /\ Cardinality(NamespaceCalls) <= 1
    /\ ~deleteNamespace => NamespaceCalls = {}
    /\ NamespaceCalls # {} => (cleanupPc = "done" /\ NamespaceCalls = {Len(deleteLog)})
    /\ (cleanupPc = "done" /\ deleteNamespace /\ ~ListFailed) =>
          NamespaceCalls = {Len(deleteLog)}
    /\ \A k \in DOMAIN listLog : listLog[k].kind = KindOrder[k]

C16_Witness ==
    /\ cleanupPc = "done"
    /\ deleteNamespace
    /\ Len(deleteLog) = 4
    /\ deleteLog[1].kind = "VM"
    /\ deleteLog[2].kind = "Service"
    /\ deleteLog[3].kind = "Secret"
    /\ deleteLog[4].kind = "Namespace"

\* The run-id values on the objects of a set of Delete calls.
RunIDsOfCalls(S) ==
    {CalledObject(i).labels[LabelRunID] :
        i \in {j \in S : LabelRunID \in DOMAIN CalledObject(j).labels}}

\* The Delete calls after which the object was gone.
GoneCalls == {i \in ItemCalls : deleteLog[i].answer \in {"nil", "NotFound"}}

UnknownRequested == \E i \in DOMAIN workloadNames : workloadNames[i] \notin Registry

\* C18: a run whose --workloads names an unknown kind never gets past planning:
\* it makes no connection and no gateway call and changes nothing in the
\* cluster, and (unless the cloud-init of an earlier, valid kind failed to
\* generate first) it returns the unknown-workload error, which names the first
\* unknown kind and lists cpu, database, disk, memory, network in that order.
C18_UnknownWorkload ==
    /\ [](UnknownRequested =>
            /\ runPc \in {"plan", "done"}
            /\ NoClusterCall
            /\ plans = <<>>
            /\ runPc = "done" => runErr.op \in {"creating workload", "generating cloud-init"}
            /\ runErr.op = "creating workload" =>
                  /\ runErr.cause = "unknown workload"
                  /\ Head(runErr.detail) \in Range(workloadNames) \ Registry
                  /\ Tail(runErr.detail) = <<"cpu", "database", "disk", "memory", "network">>)
    /\ [](runErr.op = "creating workload" => UnknownRequested)
    /\ [][UnknownRequested => UNCHANGED clusterVars]_vars

C18_Witness ==
    /\ workloadNames = <<"cpu", "nosuch">>
    /\ ~dryRun
    /\ runPc = "done"
    /\ runErr.detail = <<"nosuch", "cpu", "database", "disk", "memory", "network">>


\* ---- Failures of the fan-out and of the stages before it

TaskFailed(i) == tasks[i].call.pc = "returned" /\ tasks[i].call.ret # "nil"

\* C19: once a VM create task of the fan-out has failed, the run is still in
\* the fan-out or has returned the "creating VMs" error with the first task
\* error as its cause; it never reaches the readiness wait or the success
\* return; and no step of a run removes an object or the namespace.
C19_FanOutFailure ==
    /\ []((\E i \in DOMAIN tasks : TaskFailed(i)) =>
            /\ runPc \in {"gwait", "done"}
            /\ groupErr # NoGroupError
            /\ waitResults = <<>>
            /\ runPc = "done" =>
                  /\ runErr.op = "creating VMs"
                  /\ runErr.cause = groupErr.cause
                  /\ runErr.cause # "nil")
    /\ [][/\ cluster \subseteq cluster'
          /\ namespaceExists => namespaceExists']_vars

C19_Witness ==
    /\ runPc = "done"
    /\ runErr.op = "creating VMs"
    /\ \E i, j \in DOMAIN tasks :
          /\ TaskFailed(i)
          /\ tasks[i].call.ret = "Forbidden"
          /\ tasks[j].call.ret = "nil"
          /\ \E o \in cluster : o.kind = "VM" /\ o.name = plans[j].vmName
                                /\ HasLabel(o, LabelRunID, RunID)
    /\ \E o \in cluster : o.kind = "Secret" /\ HasLabel(o, LabelRunID, RunID)
    /\ \E o \in cluster : o.kind = "Service" /\ HasLabel(o, LabelRunID, RunID)

FailedCalls(log) == {k \in DOMAIN log : log[k].ret # "nil"}

\* C20: a failed namespace ensure, Service create or Secret create is the last
\* call the run issues: no later call of its stage and no call of a later stage
\* follows, the run has returned, and the error carries the stage, the cause
\* and the quoted subject (the namespace, the workload of the Service, the VM
\* of the Secret); a "creating VMs" error carries the VM name and the cause of
\* one failed task.
C20_FirstErrorStops ==
    /\ FailedCalls(nsCalls) # {} =>
          /\ Len(nsCalls) = 1 /\ svcCalls = <<>> /\ secCalls = <<>> /\ tasks = <<>>
          /\ runPc = "done"
          /\ runErr = [op |-> "ensuring namespace", cause |-> nsCalls[1].ret,
                       detail |-> <<nsCalls[1].name>>]
    /\ FailedCalls(svcCalls) # {} =>
          /\ FailedCalls(svcCalls) = {Len(svcCalls)}
          /\ secCalls = <<>> /\ tasks = <<>>
          /\ runPc = "done"
          /\ runErr = [op |-> "creating service", cause |-> svcCalls[Len(svcCalls)].ret,
                       detail |-> <<svcCalls[Len(svcCalls)].workload>>]
    /\ FailedCalls(secCalls) # {} =>
          /\ FailedCalls(secCalls) = {Len(secCalls)}
          /\ tasks = <<>>
          /\ runPc = "done"
          /\ runErr = [op |-> "creating cloud-init secret",
                       cause |-> secCalls[Len(secCalls)].ret,
                       detail |-> <<plans[secCalls[Len(secCalls)].plan].vmName>>]
    /\ runErr.op = "creating VMs" =>
          \E i \in DOMAIN tasks :
             /\ TaskFailed(i)
             /\ runErr.cause = tasks[i].call.ret
             /\ runErr.detail = <<plans[i].vmName>>
    /\ runErr.op \in {"ensuring namespace", "creating service", "creating cloud-init secret"} =>
          FailedCalls(nsCalls) \cup FailedCalls(svcCalls) \cup FailedCalls(secCalls) # {}

C20_Witness ==
    /\ runPc = "done"
    /\ Len(secCalls) = 2
    /\ secCalls[1].ret = "nil"
    /\ secCalls[2].ret = "Forbidden"
    /\ Len(plans) > 2
    /\ runErr.op = "creating cloud-init secret"
    /\ runErr.detail = <<plans[2].vmName>>


\* ---- Properties of the fan-out on its own

\* A task whose vm.CreateVM has made an API call (it is in flight, or was).
InFlight(i) == tasks[i].call.attempts > 0

FanOutEntry ==
    /\ runPc = "fanout"
    /\ workloadNames = <<"network">>
    /\ vmCountFlag = 1
    /\ plans = PlansWithSecrets(workloadNames, vmCountFlag)
    /\ cluster = {ServiceSpec("network", RunID)} \cup {SecretOf(plans[i], RunID) : i \in DOMAIN plans}
    /\ svcCalls = <<[workload |-> "network", name |-> ServiceSpec("network", RunID).name,
                     ret |-> "nil", vmStarted |-> FALSE]>>
    /\ secCalls = [i \in DOMAIN plans |->
                     [plan |-> i, name |-> SecretName(plans[i].vmName), ret |-> "nil",
                      vmStarted |-> FALSE]]
    /\ nsCalls = <<[name |-> "ns", labels |-> ManagedLabels, ret |-> "nil"]>>
    /\ servicesCreated = 1 /\ secretsCreated = 2 /\ runIdx = 1


\* ---- The readiness stage of a run

\* C22: with readiness waiting on, a run that reached the wait returns with a
\* result for every VM; it fails exactly when some result is non-nil, the
\* error counting every failed VM out of the planned ones; it succeeds only when
\* every result is nil; and the wait step changes nothing in the cluster.
C22_ReadinessAggregation ==
    /\ []((runPc = "done" /\ waitForReady /\ ~dryRun
              /\ runErr.op \in {"nil", "VMs failed readiness check"}) =>
            /\ DOMAIN waitResults = VMNames
            /\ runErr.op = "nil" <=> \A n \in VMNames : waitResults[n] = "nil"
            /\ runErr.op # "nil" =>
                  runErr.detail = <<Cardinality({n \in VMNames : waitResults[n] # "nil"}),
                                    Len(plans)>>)
    /\ [][runPc = "wait" => UNCHANGED clusterVars]_vars

C22_Witness ==
    /\ runPc = "done"
    /\ waitForReady
    /\ runErr.op = "VMs failed readiness check"
    /\ runErr.detail = <<1, 2>>
    /\ \E a, b \in VMNames :
          /\ waitResults[a] = "timeout"
          /\ waitResults[b] = "nil"
          /\ \E o \in cluster : o.kind = "VM" /\ o.name = a
          /\ \E o \in cluster : o.kind = "VM" /\ o.name = b


\* ---- Cancellation of a retried call and of a readiness wait

\* C23: once the caller's context is cancelled, a readiness poller makes no
\* further read, no time passes before it returns, and it returns the
\* cancellation error (also when its deadline has passed as well); a retried
\* gateway call makes no further API call, changes nothing in the cluster and
\* returns the cancellation error, never the retries-exhausted one.  Nothing
\* returns a cancellation error unless the caller cancelled.
C23_Cancellation ==
    /\ [][wCtxCancelled =>
            /\ now' = now
            /\ \A i \in DOMAIN wTasks :
                  /\ wTasks'[i].reads = wTasks[i].reads
                  /\ (wTasks[i].pc # "done" /\ wTasks'[i].pc = "done") =>
                        wTasks'[i].err = "cancelled"]_vars
    /\ [][(ctxCancelled /\ call.pc \in {"attempt", "sleep"}) =>
            /\ call'.attempts = call.attempts
            /\ UNCHANGED clusterVars
            /\ call'.pc = "returned" => call'.ret = "Cancelled"]_vars
    /\ [](\A i \in DOMAIN wTasks : wTasks[i].err = "cancelled" => wCtxCancelled)
    /\ [](call.pc = "returned" /\ call.ret = "Cancelled" => ctxCancelled)

C23_Witness ==
    /\ wCtxCancelled
    /\ \E i \in DOMAIN wTasks :
          /\ wTasks[i].pc = "done"
          /\ wTasks[i].err = "cancelled"
          /\ wTasks[i].reads >= 1
          /\ now > wTasks[i].deadline

\* A retried call cancelled in its backoff, after a transient answer.
CancelledInBackoff ==
    /\ call.pc = "returned"
    /\ call.ret = "Cancelled"
    /\ call.attempts >= 1
    /\ Len(call.sleeps) = call.attempts


\* ---- Not-found and other read errors in the single-VM wait

ReadBy(i) == wTasks'[i].reads = wTasks[i].reads + 1

\* C24 (as stated): a VM whose instance was absent at first and reaches the
\* running phase before the deadline yields success (barring cancellation and
\* read errors).
C24_LateInstanceAsStated ==
    \A i \in DOMAIN wTasks :
       (/\ wTasks[i].pc = "done"
        /\ phase0[wTasks[i].name] = "absent"
        /\ inTime[wTasks[i].name]
        /\ wTasks[i].err # "cancelled"
        /\ wTasks[i].lastRead # "error") => wTasks[i].err = "nil"

\* C24 (amended): a read answered not-found puts the poller to sleep for one
\* poll interval and never ends the wait; the next read comes no earlier than
\* the wake-up; a read that finds the instance running ends the wait with
\* success; a read failing otherwise ends it with the read error, and a
\* finished poller never reads again.
C24_NotFoundTolerated ==
    /\ [][\A i \in DOMAIN wTasks :
            /\ ReadBy(i) =>
                  /\ now >= wTasks[i].wake
                  /\ wTasks'[i].lastRead = "NotFound" =>
                        /\ wTasks'[i].pc = "sleep"
                        /\ wTasks'[i].wake = now + wInterval
                  /\ wTasks'[i].lastRead = "Running" =>
                        wTasks'[i].pc = "done" /\ wTasks'[i].err = "nil"
                  /\ wTasks'[i].lastRead = "error" =>
                        wTasks'[i].pc = "done" /\ wTasks'[i].err = "readError"
            /\ wTasks[i].pc = "done" => wTasks'[i] = wTasks[i]]_vars
    /\ [](\A i \in DOMAIN wTasks :
            /\ wTasks[i].err = "readError" => wTasks[i].lastRead = "error"
            /\ (wTasks[i].pc = "done" /\ wTasks[i].lastRead = "NotFound") =>
                  wTasks[i].err \in {"timeout", "cancelled"}
            /\ wTasks[i].err = "nil" => wTasks[i].lastRead = "Running")

C24_Witness ==
    \E i \in DOMAIN wTasks :
       /\ wTasks[i].pc = "done"
       /\ wTasks[i].err = "nil"
       /\ phase0[wTasks[i].name] = "absent"
       /\ wTasks[i].reads >= 3
       /\ ~wCtxCancelled


\* ---- The result map of the multi-VM wait

Pollers(name) == {i \in DOMAIN wTasks : wTasks[i].name = name}

\* C25 (as stated): when the wait returns, every task has produced its result
\* and the map holds, for every requested name, the result of the task polling
\* that VM, written once by that task.
C25_WrittenOnceAsStated ==
    wReturned =>
       /\ \A i \in DOMAIN wTasks : wTasks[i].pc = "done"
       /\ DOMAIN wResults = Range(wNames)
       /\ \A n \in Range(wNames) :
             /\ Cardinality(Pollers(n)) = 1
             /\ \A i \in Pollers(n) : wResults[n] = wTasks[i].err


\* ---- VM names within one planning pass

\* C26 (as stated): no two plans of a planning pass have the same VM name.
C26_UniqueNamesAsStated ==
    \A i, j \in DOMAIN plans : i # j => plans[i].vmName # plans[j].vmName


\* ---- Which errors a run's failure carries

OwnFailures == {i \in DOMAIN tasks : TaskFailed(i) /\ tasks[i].call.ret # "Cancelled"}

C28_UniqueRunIDAsStated ==
    \A i, j \in DOMAIN invocations :
       i # j => \A a \in DOMAIN invocations[i].labelled, b \in DOMAIN invocations[j].labelled :
                   invocations[i].labelled[a] # invocations[j].labelled[b]


\* ---- Labels of what a run creates

\* The objects the run added to the namespace.
CreatedByRun == cluster \ StaleObjects

\* C29: every Service, Secret and VM a run creates carries the managed-by label
\* and the run's run-id label when it is created; the namespace is created with
\* the managed-by label only, without a run-id label.
C29_LabelsAtCreation ==
    /\ \A o \in CreatedByRun :
          /\ o.kind \in {"Service", "Secret", "VM"}
          /\ HasLabel(o, LabelManagedBy, ManagedByValue)
          /\ HasLabel(o, LabelRunID, RunID)
    /\ \A k \in DOMAIN nsCalls :
          /\ DOMAIN nsCalls[k].labels = {LabelManagedBy}
          /\ nsCalls[k].labels[LabelManagedBy] = ManagedByValue

\* A finished run that created the namespace, a Service, a Secret and a VM.
C29_Witness ==
    /\ runPc = "done"
    /\ runErr = NoRunError
    /\ nsCalls # <<>> /\ nsCalls[1].ret = "nil"
    /\ \A kind \in {"Service", "Secret", "VM"} : \E o \in CreatedByRun : o.kind = kind


\* ---- What a successful run leaves for a cleanup filtered to its run-id

\* The run has returned nil after creating (not a dry run).
RunSucceeded == runPc = "done" /\ runErr = NoRunError /\ ~dryRun /\ tasks # <<>>

\* The resources the run counts as created: a Service and a Secret per create
\* that returned nil (servicesCreated, secretsCreated) and a VM per plan.
ReportedCreated ==
    {[kind |-> "Service", name |-> svcCalls[k].name] :
        k \in {j \in DOMAIN svcCalls : svcCalls[j].ret = "nil"}}
    \cup {[kind |-> "Secret", name |-> secCalls[k].name] :
            k \in {j \in DOMAIN secCalls : secCalls[j].ret = "nil"}}
    \cup {[kind |-> "VM", name |-> plans[i].vmName] : i \in DOMAIN plans}

\* The objects of the namespace under the name of a reported resource.
Named(r) == {o \in cluster : o.kind = r.kind /\ o.name = r.name}

\* What the lists of a cleanup filtered to runID select.
Matched(cl, runID) == {o \in cl : MatchingLabels(o.labels, Selector(runID))}

\* C30 (as stated): after a successful run, every VM, Service and Secret the run
\* reported as created is in the cluster with the run's run-id, so that a cleanup
\* filtered to that run-id selects it.
C30_AllCarryRunIDAsStated ==
    RunSucceeded =>
       \A r \in ReportedCreated : \E o \in Matched(cluster, RunID) : o.kind = r.kind /\ o.name = r.name

\* C30: after a successful run every resource reported as created exists once in
\* the cluster; one that did not exist before the run carries the run's run-id and
\* is selected by a cleanup filtered to it, one an earlier run left under the same
\* name keeps the labels it had.
C30_CreatedByRunCarryRunID ==
    RunSucceeded =>
       \A r \in ReportedCreated :
          /\ Cardinality(Named(r)) = 1
          /\ \A o \in Named(r) :
                IF o \in StaleObjects
                THEN o.labels = ManagedRun(RunB)
                ELSE /\ o \in Matched(cluster, RunID)
                     /\ o.labels[LabelRunID] = RunID

\* A successful run that reported a resource an earlier run had left and one it
\* created itself.
C30_Witness ==
    /\ RunSucceeded
    /\ \E r \in ReportedCreated : Named(r) \subseteq StaleObjects /\ Named(r) # {}
    /\ \E r \in ReportedCreated : Named(r) \cap Matched(cluster, RunID) # {}

====
